---- MODULE Spec2Model ----
(***************************************************************************)
(* A model of the simulator binary (src/simulator/src/main.rs): the        *)
(* decode-validate-dispatch pipeline of main, send_error, and the pure     *)
(* classifier decode_error.                                                *)
(*                                                                         *)
(* Texts that the classifier reads are sequences of one-character strings, *)
(* so that to_lowercase and contains are computed, not assumed.            *)
(* The base64 and XDR codecs and the soroban host are external crates; a   *)
(* payload is modelled by what the codecs make of it (see Base64Decode,    *)
(* FromXdr) and the host by the Results its calls return (see Engines).    *)
(***************************************************************************)
EXTENDS Integers, Sequences, FiniteSets, TLC

\* ------------------------------------------------------------------ bounds
\* Longest operation sequence of an envelope.
MaxOps == 2
\* Largest ledger_entries mapping.
MaxPairs == 2
\* Largest number of fragments a classifier message is built from.
MaxFragments == 3

VARIABLES
    stdin,                 \* the document on standard input
    engine,                \* the Results the host's calls return in this process
    pc,                    \* position of main
    request,               \* <<>> before the parse, <<SimulationRequest>> after
    envelope,              \* <<>> before the decode, <<TransactionEnvelope>> after
    pending,               \* keys of ledger_entries the for loop has not visited
    loaded_entries_count,
    invocation_logs,
    events,
    stdout,                \* documents written to standard output
    stderr,                \* lines written to standard error
    exit,                  \* "running", "returned" or "panicked"
    stages,                \* history: <<stage, succeeded>> of every decode stage run
    previous,              \* <<>> or <<outcome of an earlier execution on the same stdin>>
    err_msg,               \* argument of decode_error
    decoded                \* <<>> or <<result of decode_error(err_msg)>>

mainVars == <<pc, request, envelope, pending, loaded_entries_count,
              invocation_logs, events, stdout, stderr, exit, stages>>
decodeVars == <<err_msg, decoded>>
vars == <<stdin, engine, mainVars, previous, decodeVars>>

\* ------------------------------------------------------------ Result, Option
Ok(v) == [ok |-> TRUE, val |-> v]
Err(e) == [ok |-> FALSE, err |-> e]
None == <<>>
Some(v) == <<v>>

\* ------------------------------------------------------------ external codecs
\* A base64 text is described by what the codecs make of it: b64 says whether
\* the text is valid base64, xdr names the XDR type its bytes parse as ("none"
\* for bytes that parse as nothing), val is the parsed value.
Base64Decode(text) ==
    IF text.b64 THEN Ok([xdr |-> text.xdr, val |-> text.val])
    ELSE Err("Invalid symbol")

FromXdr(type, bytes) ==
    IF bytes.xdr = type THEN Ok(bytes.val) ELSE Err("xdr value invalid")

\* ------------------------------------------------------------ inputs
OperationBodies ==
    { [body |-> "InvokeHostFunction", host_function |-> "InvokeContract",
       contract_address |-> "CA"],
      [body |-> "InvokeHostFunction", host_function |-> "CreateContract",
       contract_address |-> ""],
      [body |-> "Payment", host_function |-> "", contract_address |-> ""] }

OperationSeqs == UNION { [1..n -> OperationBodies] : n \in 0..MaxOps }

\* The three envelope shapes; a fee bump holds an inner Tx.
Envelopes ==
    { [type |-> "Tx", tx |-> [operations |-> ops]] : ops \in OperationSeqs }
    \cup { [type |-> "TxV0", tx |-> [operations |-> ops]] : ops \in OperationSeqs }
    \cup { [type |-> "TxFeeBump",
            tx |-> [inner_tx |-> [type |-> "Tx", tx |-> [operations |-> ops]]]]
           : ops \in OperationSeqs }

EnvelopeTexts ==
    { [b64 |-> TRUE, xdr |-> "TransactionEnvelope", val |-> e] : e \in Envelopes }
    \cup { [b64 |-> FALSE, xdr |-> "none", val |-> <<>>],
           [b64 |-> TRUE, xdr |-> "none", val |-> <<>>] }

KeyTexts ==
    { [b64 |-> TRUE, xdr |-> "LedgerKey", val |-> "key1"],
      [b64 |-> TRUE, xdr |-> "LedgerKey", val |-> "key2"],
      [b64 |-> FALSE, xdr |-> "none", val |-> ""],
      [b64 |-> TRUE, xdr |-> "none", val |-> ""] }

EntryTexts ==
    { [b64 |-> TRUE, xdr |-> "LedgerEntry", val |-> "entry"],
      [b64 |-> FALSE, xdr |-> "none", val |-> ""],
      [b64 |-> TRUE, xdr |-> "none", val |-> ""] }

\* Option<HashMap<String, String>>: absent, or a mapping with unique keys.
LedgerEntryMaps ==
    { None } \cup
    { Some(m) : m \in UNION { [ks -> EntryTexts] :
                              ks \in { s \in SUBSET KeyTexts : Cardinality(s) <= MaxPairs } } }

SimulationRequest ==
    { [envelope_xdr |-> e, result_meta_xdr |-> "meta", ledger_entries |-> l]
      : e \in EnvelopeTexts, l \in LedgerEntryMaps }

\* Standard input: bytes that are not UTF-8 (read_to_string fails), text that
\* is not a request document, or a request document.
StdinDocs ==
    { [utf8 |-> FALSE, json |-> None], [utf8 |-> TRUE, json |-> None] }
    \cup { [utf8 |-> TRUE, json |-> Some(r)] : r \in SimulationRequest }

\* What the host's calls return: set_diagnostic_level's Result and
\* get_events' Result (the events, or an error).
Engines ==
    { [set_diagnostic_level |-> Err("HostError"), get_events |-> Ok(<<>>)],
      [set_diagnostic_level |-> Ok("unit"), get_events |-> Ok(<<>>)],
      [set_diagnostic_level |-> Ok("unit"), get_events |-> Ok(<<"ev1", "ev2">>)],
      [set_diagnostic_level |-> Ok("unit"), get_events |-> Err("HostError")] }

\* ------------------------------------------------------------ response
\* A faulty variant: the message is also put into logs.
send_error_WithLogs(msg) ==
    [status |-> "error", error |-> Some(msg), events |-> <<>>, logs |-> <<msg>>]

\* The response value send_error builds.
send_error(msg) ==
    [status |-> "error", error |-> Some(msg), events |-> <<>>, logs |-> <<>>]

\* serde_json::to_string of a SimulationResponse: an object of four members,
\* error serialised as null (<<>>) for None and as the string for Some.
to_string(res) ==
    [status |-> res.status,
     error |-> IF res.error = None THEN <<>> ELSE <<res.error[1]>>,
     events |-> res.events,
     logs |-> res.logs]

\* println! of the document by send_error, followed by main's return.
ReturnSendError(msg) ==
    /\ stdout' = Append(stdout, to_string(send_error(msg)))
    /\ exit' = "returned"
    /\ pc' = "done"

\* ------------------------------------------------------------ decode stages
\* serde_json::from_str::<SimulationRequest>
from_str(buffer) ==
    IF buffer.json = None
    THEN [ok |-> FALSE, err |-> <<"Invalid JSON: ", "expected value">>,
          ran |-> << <<"Request JSON", FALSE, "-">> >>]
    ELSE [ok |-> TRUE, val |-> buffer.json[1],
          ran |-> << <<"Request JSON", TRUE, "-">> >>]

\* A faulty variant: the XDR parse is tried, and reported, before the base64
\* decode's outcome is looked at.
DecodeEnvelopeXdrFirst(envelope_xdr) ==
    LET b == Base64Decode(envelope_xdr)
        e == FromXdr("TransactionEnvelope", [xdr |-> envelope_xdr.xdr, val |-> envelope_xdr.val])
    IN  IF ~e.ok
        THEN [ok |-> FALSE, err |-> <<"Failed to parse Envelope XDR: ", e.err>>,
              ran |-> << <<"Envelope Base64", b.ok, "-">>, <<"Envelope XDR", FALSE, "-">> >>]
        ELSE IF ~b.ok
        THEN [ok |-> FALSE, err |-> <<"Failed to decode Envelope Base64: ", b.err>>,
              ran |-> << <<"Envelope Base64", FALSE, "-">> >>]
        ELSE [ok |-> TRUE, val |-> e.val,
              ran |-> << <<"Envelope Base64", TRUE, "-">>, <<"Envelope XDR", TRUE, "-">> >>]

\* base64 decode of envelope_xdr, then TransactionEnvelope::from_xdr
DecodeEnvelope(envelope_xdr) ==
    LET b == Base64Decode(envelope_xdr)
    IN  IF ~b.ok
        THEN [ok |-> FALSE, err |-> <<"Failed to decode Envelope Base64: ", b.err>>,
              ran |-> << <<"Envelope Base64", FALSE, "-">> >>]
        ELSE LET e == FromXdr("TransactionEnvelope", b.val)
             IN  IF ~e.ok
                 THEN [ok |-> FALSE, err |-> <<"Failed to parse Envelope XDR: ", e.err>>,
                       ran |-> << <<"Envelope Base64", TRUE, "-">>,
                                  <<"Envelope XDR", FALSE, "-">> >>]
                 ELSE [ok |-> TRUE, val |-> e.val,
                       ran |-> << <<"Envelope Base64", TRUE, "-">>,
                                  <<"Envelope XDR", TRUE, "-">> >>]

DecodeLedgerKey(key_xdr) ==
    LET b == Base64Decode(key_xdr)
    IN  IF ~b.ok
        THEN [ok |-> FALSE, err |-> <<"Failed to decode LedgerKey Base64: ", b.err>>,
              ran |-> << <<"LedgerKey Base64", FALSE, key_xdr>> >>]
        ELSE LET k == FromXdr("LedgerKey", b.val)
             IN  IF ~k.ok
                 THEN [ok |-> FALSE, err |-> <<"Failed to parse LedgerKey XDR: ", k.err>>,
                       ran |-> << <<"LedgerKey Base64", TRUE, key_xdr>>,
                                  <<"LedgerKey XDR", FALSE, key_xdr>> >>]
                 ELSE [ok |-> TRUE, val |-> k.val,
                       ran |-> << <<"LedgerKey Base64", TRUE, key_xdr>>,
                                  <<"LedgerKey XDR", TRUE, key_xdr>> >>]

DecodeLedgerEntry(key_xdr, entry_xdr) ==
    LET b == Base64Decode(entry_xdr)
    IN  IF ~b.ok
        THEN [ok |-> FALSE, err |-> <<"Failed to decode LedgerEntry Base64: ", b.err>>,
              ran |-> << <<"LedgerEntry Base64", FALSE, key_xdr>> >>]
        ELSE LET e == FromXdr("LedgerEntry", b.val)
             IN  IF ~e.ok
                 THEN [ok |-> FALSE, err |-> <<"Failed to parse LedgerEntry XDR: ", e.err>>,
                       ran |-> << <<"LedgerEntry Base64", TRUE, key_xdr>>,
                                  <<"LedgerEntry XDR", FALSE, key_xdr>> >>]
                 ELSE [ok |-> TRUE, val |-> e.val,
                       ran |-> << <<"LedgerEntry Base64", TRUE, key_xdr>>,
                                  <<"LedgerEntry XDR", TRUE, key_xdr>> >>]

\* ------------------------------------------------------------ dispatch
\* match &envelope { Tx | TxV0 | TxFeeBump(inner Tx) }
Operations(env) ==
    IF env.type = "Tx" THEN env.tx.operations
    ELSE IF env.type = "TxV0" THEN env.tx.operations
    ELSE env.tx.inner_tx.tx.operations

\* A faulty variant: an operation of any other kind is logged as skipped.
DispatchLineEveryOp(op) ==
    IF op.body = "InvokeHostFunction" /\ op.host_function = "InvokeContract"
    THEN << <<"Invoking Contract: ", op.contract_address>> >>
    ELSE << <<"Skipping non-InvokeContract Host Function">> >>

\* The lines one operation pushes onto invocation_logs.
DispatchLine(op) ==
    IF op.body = "InvokeHostFunction"
    THEN IF op.host_function = "InvokeContract"
         THEN << <<"Invoking Contract: ", op.contract_address>> >>
         ELSE << <<"Skipping non-InvokeContract Host Function">> >>
    ELSE <<>>

\* for op in operations.iter() { ... }
RECURSIVE DispatchLoop(_, _)
DispatchLoop(operations, logs) ==
    IF operations = <<>> THEN logs
    ELSE DispatchLoop(Tail(operations), logs \o DispatchLine(Head(operations)))

\* A faulty variant: a failed query leaves no line.
EventsOfEscalate(result) ==
    IF result.ok THEN [i \in 1..Len(result.val) |-> <<"Event: ", result.val[i]>>]
    ELSE <<>>

\* match host.get_events() { Ok(evs) => formatted events, Err(e) => one line }
EventsOf(result) ==
    IF result.ok THEN [i \in 1..Len(result.val) |-> <<"Event: ", result.val[i]>>]
    ELSE << <<"Failed to retrieve events: ", result.err>> >>

InitLine(n) == <<"Host Initialized. Loaded ", n, " Ledger Entries">>

\* The success response built at the end of main.
SuccessResponse(evs, count, inv_logs) ==
    [status |-> "success", error |-> None, events |-> evs,
     logs |-> <<InitLine(count)>> \o inv_logs]

\* ------------------------------------------------------------ main
LedgerKeys(req) ==
    IF req.ledger_entries = None THEN {} ELSE DOMAIN req.ledger_entries[1]

InitMain ==
    /\ pc = "read"
    /\ request = None
    /\ envelope = None
    /\ pending = {}
    /\ loaded_entries_count = 0
    /\ invocation_logs = <<>>
    /\ events = <<>>
    /\ stdout = <<>>
    /\ stderr = <<>>
    /\ exit = "running"
    /\ stages = <<>>

Init ==
    /\ stdin \in StdinDocs
    /\ engine \in Engines
    /\ InitMain
    /\ previous = None
    /\ err_msg = <<>>
    /\ decoded = None

\* io::stdin().read_to_string(&mut buffer)
ReadStdin ==
    /\ pc = "read"
    /\ IF stdin.utf8
       THEN /\ pc' = "parse"
            /\ UNCHANGED <<stderr, exit>>
       ELSE /\ stderr' = Append(stderr, <<"Failed to read stdin: ", "stream did not contain valid UTF-8">>)
            /\ exit' = "returned"
            /\ pc' = "done"
    /\ UNCHANGED <<stdin, engine, request, envelope, pending, loaded_entries_count,
                   invocation_logs, events, stdout, stages, previous, decodeVars>>

\* serde_json::from_str(&buffer)
ParseRequest ==
    /\ pc = "parse"
    /\ LET r == from_str(stdin)
       IN  /\ stages' = stages \o r.ran
           /\ IF r.ok
              THEN /\ request' = Some(r.val)
                   /\ pc' = "envelope"
                   /\ UNCHANGED <<stdout, exit>>
              ELSE /\ ReturnSendError(r.err)
                   /\ UNCHANGED request
    /\ UNCHANGED <<stdin, engine, envelope, pending, loaded_entries_count,
                   invocation_logs, events, stderr, previous, decodeVars>>

\* base64 decode of envelope_xdr, then TransactionEnvelope::from_xdr
DecodeEnvelopeStep ==
    /\ pc = "envelope"
    /\ LET r == DecodeEnvelope(request[1].envelope_xdr)
       IN  /\ stages' = stages \o r.ran
           /\ IF r.ok
              THEN /\ envelope' = Some(r.val)
                   /\ pc' = "host"
                   /\ UNCHANGED <<stdout, exit>>
              ELSE /\ ReturnSendError(r.err)
                   /\ UNCHANGED envelope
    /\ UNCHANGED <<stdin, engine, request, pending, loaded_entries_count,
                   invocation_logs, events, stderr, previous, decodeVars>>

\* Host::default(); host.set_diagnostic_level(Debug).unwrap();
\* let mut loaded_entries_count = 0; and the start of the for loop.
InitHost ==
    /\ pc = "host"
    /\ IF engine.set_diagnostic_level.ok
       THEN /\ pc' = "ledger"
            /\ loaded_entries_count' = 0
            /\ pending' = LedgerKeys(request[1])
            /\ UNCHANGED <<stderr, exit>>
       ELSE /\ stderr' = Append(stderr, <<"panicked: ", engine.set_diagnostic_level.err>>)
            /\ exit' = "panicked"
            /\ pc' = "done"
            /\ UNCHANGED <<loaded_entries_count, pending>>
    /\ UNCHANGED <<stdin, engine, request, envelope, invocation_logs, events,
                   stdout, stages, previous, decodeVars>>

\* One iteration of `for (key_xdr, entry_xdr) in entries`, a faulty variant
\* that skips a pair it cannot decode instead of returning.
LoadLedgerEntrySkip ==
    /\ pc = "ledger"
    /\ \E key_xdr \in pending :
          LET entry_xdr == request[1].ledger_entries[1][key_xdr]
              k == DecodeLedgerKey(key_xdr)
              e == DecodeLedgerEntry(key_xdr, entry_xdr)
          IN  /\ pending' = pending \ {key_xdr}
              /\ stages' = stages \o k.ran \o (IF k.ok THEN e.ran ELSE <<>>)
              /\ loaded_entries_count' =
                     IF k.ok /\ e.ok THEN loaded_entries_count + 1
                     ELSE loaded_entries_count
              /\ UNCHANGED <<pc, stdout, exit>>
    /\ UNCHANGED <<stdin, engine, request, envelope, invocation_logs, events,
                   stderr, previous, decodeVars>>

\* One iteration of `for (key_xdr, entry_xdr) in entries`: the HashMap yields
\* its pairs in an order the program does not choose.
LoadLedgerEntry ==
    /\ pc = "ledger"
    /\ \E key_xdr \in pending :
          LET entry_xdr == request[1].ledger_entries[1][key_xdr]
              k == DecodeLedgerKey(key_xdr)
              e == DecodeLedgerEntry(key_xdr, entry_xdr)
          IN  /\ pending' = pending \ {key_xdr}
              /\ IF ~k.ok
                 THEN /\ stages' = stages \o k.ran
                      /\ ReturnSendError(k.err)
                      /\ UNCHANGED loaded_entries_count
                 ELSE IF ~e.ok
                 THEN /\ stages' = stages \o k.ran \o e.ran
                      /\ ReturnSendError(e.err)
                      /\ UNCHANGED loaded_entries_count
                 ELSE /\ stages' = stages \o k.ran \o e.ran
                      /\ loaded_entries_count' = loaded_entries_count + 1
                      /\ UNCHANGED <<pc, stdout, exit>>
    /\ UNCHANGED <<stdin, engine, request, envelope, invocation_logs, events,
                   stderr, previous, decodeVars>>

\* let operations = match &envelope {...}; for op in operations.iter() {...}
Dispatch ==
    /\ pc = "ledger"
    /\ pending = {}
    /\ invocation_logs' = DispatchLoop(Operations(envelope[1]), <<>>)
    /\ pc' = "events"
    /\ UNCHANGED <<stdin, engine, request, envelope, pending, loaded_entries_count,
                   events, stdout, stderr, exit, stages, previous, decodeVars>>

\* let events = match host.get_events() {...}
GetEvents ==
    /\ pc = "events"
    /\ events' = EventsOf(engine.get_events)
    /\ pc' = "respond"
    /\ UNCHANGED <<stdin, engine, request, envelope, pending, loaded_entries_count,
                   invocation_logs, stdout, stderr, exit, stages, previous, decodeVars>>

\* println!("{}", serde_json::to_string(&response).unwrap())
Respond ==
    /\ pc = "respond"
    /\ stdout' = Append(stdout, to_string(
                     SuccessResponse(events, loaded_entries_count, invocation_logs)))
    /\ exit' = "returned"
    /\ pc' = "done"
    /\ UNCHANGED <<stdin, engine, request, envelope, pending, loaded_entries_count,
                   invocation_logs, events, stderr, stages, previous, decodeVars>>

Next ==
    \/ ReadStdin
    \/ ParseRequest
    \/ DecodeEnvelopeStep
    \/ InitHost
    \/ LoadLedgerEntry
    \/ Dispatch
    \/ GetEvents
    \/ Respond

Spec == Init /\ [][Next]_vars

\* A second execution of the program on the same standard input, with the
\* same host behaviour: the first execution's outcome is kept for comparison.
Rerun ==
    /\ pc = "done"
    /\ previous = None
    /\ previous' = Some([stdout |-> stdout, exit |-> exit])
    /\ pc' = "read"
    /\ request' = None
    /\ envelope' = None
    /\ pending' = {}
    /\ loaded_entries_count' = 0
    /\ invocation_logs' = <<>>
    /\ events' = <<>>
    /\ stdout' = <<>>
    /\ stderr' = <<>>
    /\ exit' = "running"
    /\ stages' = <<>>
    /\ UNCHANGED <<stdin, engine, decodeVars>>

NextRerun == Next \/ Rerun

SpecRerun == Init /\ [][NextRerun]_vars

\* ============================================================ decode_error
\* Texts are sequences of one-character strings.

\* The keywords decode_error looks for.
kw_wasm_trap == <<"w", "a", "s", "m", " ", "t", "r", "a", "p">>
kw_trapped == <<"t", "r", "a", "p", "p", "e", "d">>
kw_unreachable == <<"u", "n", "r", "e", "a", "c", "h", "a", "b", "l", "e">>
kw_out_of_bounds == <<"o", "u", "t", " ", "o", "f", " ", "b", "o", "u", "n", "d", "s">>
kw_memory_access == <<"m", "e", "m", "o", "r", "y", " ", "a", "c", "c", "e", "s", "s">>
kw_integer_overflow == <<"i", "n", "t", "e", "g", "e", "r", " ", "o", "v", "e", "r", "f", "l", "o", "w">>
kw_arithmetic_overflow == <<"a", "r", "i", "t", "h", "m", "e", "t", "i", "c", " ", "o", "v", "e", "r", "f", "l", "o", "w">>
kw_stack_overflow == <<"s", "t", "a", "c", "k", " ", "o", "v", "e", "r", "f", "l", "o", "w">>
kw_call_stack_exhausted == <<"c", "a", "l", "l", " ", "s", "t", "a", "c", "k", " ", "e", "x", "h", "a", "u", "s", "t", "e", "d">>
kw_divide_by_zero == <<"d", "i", "v", "i", "d", "e", " ", "b", "y", " ", "z", "e", "r", "o">>
kw_hosterror == <<"h", "o", "s", "t", "e", "r", "r", "o", "r">>
kw_context == <<"c", "o", "n", "t", "e", "x", "t">>

\* The texts decode_error returns.
out_unreachable == <<"V", "M", " ", "T", "r", "a", "p", ":", " ", "U", "n", "r", "e", "a", "c", "h", "a", "b", "l", "e", " ", "I", "n", "s", "t", "r", "u", "c", "t", "i", "o", "n", " ", "(", "P", "a", "n", "i", "c", " ", "o", "r", " ", "i", "n", "v", "a", "l", "i", "d", " ", "c", "o", "d", "e", " ", "p", "a", "t", "h", ")">>
out_out_of_bounds == <<"V", "M", " ", "T", "r", "a", "p", ":", " ", "O", "u", "t", " ", "o", "f", " ", "B", "o", "u", "n", "d", "s", " ", "A", "c", "c", "e", "s", "s", " ", "(", "I", "n", "v", "a", "l", "i", "d", " ", "m", "e", "m", "o", "r", "y", " ", "r", "e", "a", "d", "/", "w", "r", "i", "t", "e", ")">>
out_integer_overflow == <<"V", "M", " ", "T", "r", "a", "p", ":", " ", "I", "n", "t", "e", "g", "e", "r", " ", "O", "v", "e", "r", "f", "l", "o", "w">>
out_stack_overflow == <<"V", "M", " ", "T", "r", "a", "p", ":", " ", "S", "t", "a", "c", "k", " ", "O", "v", "e", "r", "f", "l", "o", "w", " ", "(", "R", "e", "c", "u", "r", "s", "i", "o", "n", " ", "l", "i", "m", "i", "t", " ", "e", "x", "c", "e", "e", "d", "e", "d", ")">>
out_divide_by_zero == <<"V", "M", " ", "T", "r", "a", "p", ":", " ", "D", "i", "v", "i", "s", "i", "o", "n", " ", "b", "y", " ", "Z", "e", "r", "o">>
out_unknown_trap_prefix == <<"V", "M", " ", "T", "r", "a", "p", ":", " ", "U", "n", "k", "n", "o", "w", "n", " ", "W", "a", "s", "m", " ", "T", "r", "a", "p", " ", "(">>
out_unknown_trap_suffix == <<")">>
out_host_trap_prefix == <<"H", "o", "s", "t", " ", "T", "r", "a", "p", ":", " ">>
out_execution_error_prefix == <<"E", "x", "e", "c", "u", "t", "i", "o", "n", " ", "E", "r", "r", "o", "r", ":", " ">>

\* char::to_lowercase on the letters A-Z; every other character of the
\* alphabet used here is its own lowercase.
LowerOf ==
    ("A" :> "a") @@ ("B" :> "b") @@ ("C" :> "c") @@ ("D" :> "d") @@ ("E" :> "e") @@ ("F" :> "f") @@
    ("G" :> "g") @@ ("H" :> "h") @@ ("I" :> "i") @@ ("J" :> "j") @@ ("K" :> "k") @@ ("L" :> "l") @@
    ("M" :> "m") @@ ("N" :> "n") @@ ("O" :> "o") @@ ("P" :> "p") @@ ("Q" :> "q") @@ ("R" :> "r") @@
    ("S" :> "s") @@ ("T" :> "t") @@ ("U" :> "u") @@ ("V" :> "v") @@ ("W" :> "w") @@ ("X" :> "x") @@
    ("Y" :> "y") @@ ("Z" :> "z")

\* A faulty variant: matching on the message as written.
to_lowercase_AsIs(s) == s

\* str::to_lowercase
to_lowercase(s) == [i \in 1..Len(s) |-> IF s[i] \in DOMAIN LowerOf THEN LowerOf[s[i]] ELSE s[i]]

\* str::contains for a non-empty pattern
contains(s, pat) ==
    \E i \in 1..(Len(s) - Len(pat) + 1) :
        s[i] = pat[1] /\ SubSeq(s, i, i + Len(pat) - 1) = pat

is_vm_trap(err_lower) ==
    contains(err_lower, kw_wasm_trap) \/ contains(err_lower, kw_trapped)

\* The body of `if wasm trap || trapped { ... }`.
vm_trap_message(err_lower, err) ==
    IF contains(err_lower, kw_unreachable) THEN out_unreachable
    ELSE IF contains(err_lower, kw_out_of_bounds) \/ contains(err_lower, kw_memory_access)
    THEN out_out_of_bounds
    ELSE IF contains(err_lower, kw_integer_overflow)
            \/ contains(err_lower, kw_arithmetic_overflow)
    THEN out_integer_overflow
    ELSE IF contains(err_lower, kw_stack_overflow)
            \/ contains(err_lower, kw_call_stack_exhausted)
    THEN out_stack_overflow
    ELSE IF contains(err_lower, kw_divide_by_zero) THEN out_divide_by_zero
    ELSE out_unknown_trap_prefix \o err \o out_unknown_trap_suffix

\* A faulty variant: "hosterror" is not looked for.
is_host_trap_ContextOnly(err_lower) == contains(err_lower, kw_context)

is_host_trap(err_lower) ==
    contains(err_lower, kw_hosterror) \/ contains(err_lower, kw_context)

\* A faulty variant: the host-trap rule is tried before the VM-trap rule.
decode_error_HostFirst(err) ==
    LET err_lower == to_lowercase(err)
    IN  IF is_host_trap(err_lower) THEN out_host_trap_prefix \o err
        ELSE IF is_vm_trap(err_lower) THEN vm_trap_message(err_lower, err)
        ELSE out_execution_error_prefix \o err

decode_error(err) ==
    LET err_lower == to_lowercase(err)
    IN  IF is_vm_trap(err_lower) THEN vm_trap_message(err_lower, err)
        ELSE IF is_host_trap(err_lower) THEN out_host_trap_prefix \o err
        ELSE out_execution_error_prefix \o err

\* ------------------------------------------------------------ messages
\* Messages are built from these fragments, separated by single spaces.
frag_WasmTrap == <<"W", "a", "s", "m", " ", "T", "r", "a", "p">>
frag_TRAPPED == <<"T", "R", "A", "P", "P", "E", "D">>
frag_Unreachable == <<"U", "n", "r", "e", "a", "c", "h", "a", "b", "l", "e">>
frag_OutOfBounds == <<"O", "u", "t", " ", "O", "f", " ", "B", "o", "u", "n", "d", "s">>
frag_memory_access == <<"m", "e", "m", "o", "r", "y", " ", "a", "c", "c", "e", "s", "s">>
frag_integer_overflow == <<"i", "n", "t", "e", "g", "e", "r", " ", "o", "v", "e", "r", "f", "l", "o", "w">>
frag_ARITHMETIC_OVERFLOW == <<"A", "R", "I", "T", "H", "M", "E", "T", "I", "C", " ", "O", "V", "E", "R", "F", "L", "O", "W">>
frag_Stack_Overflow == <<"S", "t", "a", "c", "k", " ", "O", "v", "e", "r", "f", "l", "o", "w">>
frag_call_stack_exhausted == <<"c", "a", "l", "l", " ", "s", "t", "a", "c", "k", " ", "e", "x", "h", "a", "u", "s", "t", "e", "d">>
frag_Divide_By_Zero == <<"D", "i", "v", "i", "d", "e", " ", "B", "y", " ", "Z", "e", "r", "o">>
frag_HostError == <<"H", "o", "s", "t", "E", "r", "r", "o", "r">>
frag_Context == <<"C", "o", "n", "t", "e", "x", "t">>
frag_VM_Trap == <<"V", "M", " ", "T", "r", "a", "p">>
frag_weird == <<"s", "o", "m", "e", "t", "h", "i", "n", "g", " ", "w", "e", "i", "r", "d">>

Fragments ==
    { frag_WasmTrap, frag_TRAPPED, frag_Unreachable,
      frag_OutOfBounds, frag_memory_access, frag_integer_overflow,
      frag_ARITHMETIC_OVERFLOW, frag_Stack_Overflow, frag_call_stack_exhausted,
      frag_Divide_By_Zero, frag_HostError, frag_Context,
      frag_VM_Trap, frag_weird }

RECURSIVE JoinFragments(_)
JoinFragments(fs) ==
    IF fs = <<>> THEN <<>>
    ELSE IF Len(fs) = 1 THEN fs[1]
    ELSE fs[1] \o <<" ">> \o JoinFragments(Tail(fs))

Messages ==
    { JoinFragments(fs) : fs \in UNION { [1..n -> Fragments] : n \in 0..MaxFragments } }

\* The classifier is applied to one message; main does not run.
InitDecode ==
    /\ stdin = [utf8 |-> TRUE, json |-> None]
    /\ engine = [set_diagnostic_level |-> Ok("unit"), get_events |-> Ok(<<>>)]
    /\ InitMain
    /\ previous = None
    /\ err_msg \in Messages
    /\ decoded = None

DecodeError ==
    /\ decoded = None
    /\ decoded' = Some(decode_error(err_msg))
    /\ UNCHANGED <<stdin, engine, mainVars, previous, err_msg>>

NextDecode == DecodeError

SpecDecode == InitDecode /\ [][NextDecode]_vars

\* ============================================================ claims: main
Last(seq) == seq[Len(seq)]

\* The request's pairs, read from the input.
InputPairs == IF request = None THEN {} ELSE LedgerKeys(request[1])

PairValid(key_xdr) ==
    LET entry_xdr == request[1].ledger_entries[1][key_xdr]
    IN  /\ key_xdr.b64 /\ key_xdr.xdr = "LedgerKey"
        /\ entry_xdr.b64 /\ entry_xdr.xdr = "LedgerEntry"

\* C1: every emitted response has status "success" or "error", has status
\* "error" exactly when error is present, and has empty events and logs
\* whenever its status is "error".
C1_ResponseShape ==
    \A i \in 1..Len(stdout) :
        LET r == stdout[i]
        IN  /\ r.status \in {"success", "error"}
            /\ (r.status = "error") <=> (r.error # <<>>)
            /\ (r.status = "error") => (r.events = <<>> /\ r.logs = <<>>)

\* An error response has been emitted for a failing ledger pair.
C1_Witness ==
    /\ pc = "done"
    /\ Len(stdout) = 1
    /\ stdout[1].status = "error"
    /\ Len(stages) > 3

\* C2: every execution, whatever stage fails, ends normally having written
\* exactly one response document: never zero, never more than one.
C2_ExactlyOneDocument ==
    /\ Len(stdout) <= 1
    /\ (pc = "done") => (exit = "returned" /\ Len(stdout) = 1)

\* The fixed stage order: the request parse, the two envelope stages, then
\* four stages for each ledger pair.
StageName(i) ==
    IF i <= 3
    THEN <<"Request JSON", "Envelope Base64", "Envelope XDR">>[i]
    ELSE <<"LedgerKey Base64", "LedgerKey XDR",
           "LedgerEntry Base64", "LedgerEntry XDR">>[((i - 4) % 4) + 1]

\* The error text that names a stage.
StageError(name) ==
    CASE name = "Request JSON" -> "Invalid JSON: "
      [] name = "Envelope Base64" -> "Failed to decode Envelope Base64: "
      [] name = "Envelope XDR" -> "Failed to parse Envelope XDR: "
      [] name = "LedgerKey Base64" -> "Failed to decode LedgerKey Base64: "
      [] name = "LedgerKey XDR" -> "Failed to parse LedgerKey XDR: "
      [] name = "LedgerEntry Base64" -> "Failed to decode LedgerEntry Base64: "
      [] name = "LedgerEntry XDR" -> "Failed to parse LedgerEntry XDR: "

\* Whether the input passes stage i, read from the input itself.
StagePasses(i) ==
    LET name == stages[i][1]
        key == stages[i][3]
    IN  CASE name = "Request JSON" -> stdin.json # None
          [] name = "Envelope Base64" -> request[1].envelope_xdr.b64
          [] name = "Envelope XDR" -> request[1].envelope_xdr.xdr = "TransactionEnvelope"
          [] name = "LedgerKey Base64" -> key \in InputPairs /\ key.b64
          [] name = "LedgerKey XDR" -> key \in InputPairs /\ key.xdr = "LedgerKey"
          [] name = "LedgerEntry Base64" ->
                key \in InputPairs /\ request[1].ledger_entries[1][key].b64
          [] name = "LedgerEntry XDR" ->
                key \in InputPairs /\ request[1].ledger_entries[1][key].xdr = "LedgerEntry"

EnvelopeUndecodable ==
    /\ request # None
    /\ ~(request[1].envelope_xdr.b64 /\ request[1].envelope_xdr.xdr = "TransactionEnvelope")

\* C3: the decode stages run in the fixed order, each with the outcome the
\* input decides; the first one that fails is the last one run and ends the
\* execution with an error response naming it, with no events, no logs and
\* no operation inspected; an undecodable envelope yields the envelope error
\* whatever the ledger entries are.
C3_FailFast ==
    /\ \A i \in 1..Len(stages) :
          /\ stages[i][1] = StageName(i)
          /\ stages[i][2] = StagePasses(i)
          /\ (~stages[i][2]) => (i = Len(stages))
          /\ (i > 3 /\ (i - 4) % 4 # 0) => (stages[i][3] = stages[i - 1][3])
    /\ (Len(stages) > 0 /\ ~Last(stages)[2]) =>
          /\ pc = "done"
          /\ exit = "returned"
          /\ Len(stdout) = 1
          /\ stdout[1].status = "error"
          /\ stdout[1].error # <<>>
          /\ stdout[1].error[1][1] = StageError(Last(stages)[1])
          /\ stdout[1].events = <<>>
          /\ stdout[1].logs = <<>>
          /\ invocation_logs = <<>>
          /\ events = <<>>
    /\ (EnvelopeUndecodable /\ pc = "done") =>
          /\ Len(stages) <= 3
          /\ Len(stdout) = 1
          /\ stdout[1].status = "error"
          /\ stdout[1].error[1][1] \in {"Failed to decode Envelope Base64: ",
                                        "Failed to parse Envelope XDR: "}

\* An envelope whose bytes are not a TransactionEnvelope, sent with ledger
\* entries that are invalid too, has been answered.
C3_Witness ==
    /\ pc = "done"
    /\ EnvelopeUndecodable
    /\ request[1].envelope_xdr.b64
    /\ \E k \in InputPairs : ~PairValid(k)
    /\ Len(stdout) = 1

\* The event query was made in this execution and the execution has ended.
EventQueryFailed ==
    /\ pc = "done"
    /\ stdin.utf8
    /\ engine.set_diagnostic_level.ok
    /\ Len(stages) > 0
    /\ \A i \in 1..Len(stages) : stages[i][2]
    /\ ~engine.get_events.ok

IsRetrievalFailureLine(line) ==
    Len(line) = 2 /\ line[1] = "Failed to retrieve events: "

\* C7 as claimed: a failed event query leaves exactly one "Failed to retrieve
\* events" line in the response's logs, with status "success" and no error.
C7_FailureLineInLogs ==
    EventQueryFailed =>
        /\ Len(stdout) = 1
        /\ stdout[1].status = "success"
        /\ stdout[1].error = <<>>
        /\ Cardinality({ i \in 1..Len(stdout[1].logs) :
                           IsRetrievalFailureLine(stdout[1].logs[i]) }) = 1

\* C7 as amended: a failed event query makes the response's events the single
\* line "Failed to retrieve events: ...", leaves logs without such a line,
\* and the response has status "success" and no error.
C7_FailureLineInEvents ==
    EventQueryFailed =>
        /\ Len(stdout) = 1
        /\ stdout[1].status = "success"
        /\ stdout[1].error = <<>>
        /\ Len(stdout[1].events) = 1
        /\ IsRetrievalFailureLine(stdout[1].events[1])
        /\ stdout[1].events[1][2] = engine.get_events.err
        /\ \A i \in 1..Len(stdout[1].logs) : ~IsRetrievalFailureLine(stdout[1].logs[i])

\* The event query failed after at least one operation was dispatched.
C7_Witness ==
    /\ EventQueryFailed
    /\ Len(stdout) = 1
    /\ invocation_logs # <<>>

SuccessEmitted ==
    /\ pc = "done"
    /\ Len(stdout) = 1
    /\ stdout[1].status = "success"

\* C8: a success response's first log line is "Host Initialized. Loaded N
\* Ledger Entries" with N the number of pairs of the request's ledger_entries
\* (0 when absent or empty), and every one of those pairs is valid.
C8_LoadedCount ==
    SuccessEmitted =>
        /\ Len(stdout[1].logs) >= 1
        /\ stdout[1].logs[1] =
               <<"Host Initialized. Loaded ", Cardinality(InputPairs), " Ledger Entries">>
        /\ \A k \in InputPairs : PairValid(k)

\* A success response for a request with MaxPairs pairs.
C8_Witness ==
    /\ SuccessEmitted
    /\ Cardinality(InputPairs) = MaxPairs
    /\ MaxPairs >= 2

\* The operations of the request's envelope, read from the input.
InputOperations ==
    LET env == request[1].envelope_xdr.val
    IN  CASE env.type = "Tx" -> env.tx.operations
          [] env.type = "TxV0" -> env.tx.operations
          [] env.type = "TxFeeBump" -> env.tx.inner_tx.tx.operations

IsInvokeHostFunction(op) == op.body = "InvokeHostFunction"

\* The line the claim gives an InvokeHostFunction operation.
ClaimedLine(op) ==
    IF op.host_function = "InvokeContract"
    THEN <<"Invoking Contract: ", op.contract_address>>
    ELSE <<"Skipping non-InvokeContract Host Function">>

\* C9: a success response's logs are the initialization line followed by one
\* line per InvokeHostFunction operation of the envelope, in operation order,
\* and nothing for any other operation.
C9_DispatchLogs ==
    SuccessEmitted =>
        LET invokes == SelectSeq(InputOperations, IsInvokeHostFunction)
            logs == stdout[1].logs
        IN  /\ Len(logs) = 1 + Len(invokes)
            /\ logs[1][1] = "Host Initialized. Loaded "
            /\ \A i \in 1..Len(invokes) : logs[i + 1] = ClaimedLine(invokes[i])

\* A success response for a fee-bump envelope that holds an InvokeContract
\* operation and an operation of another kind.
C9_Witness ==
    /\ SuccessEmitted
    /\ request[1].envelope_xdr.val.type = "TxFeeBump"
    /\ \E i \in 1..Len(InputOperations) : ~IsInvokeHostFunction(InputOperations[i])
    /\ \E i \in 1..Len(InputOperations) :
          InputOperations[i].host_function = "InvokeContract"

\* C10: two executions on the same request produce the same response.
C10_SameResponse ==
    (pc = "done" /\ previous # None) =>
        (stdout = previous[1].stdout /\ exit = previous[1].exit)

\* ============================================================ claims: decode_error
\* The uppercase form of each lowercase letter.
UpperOf ==
    ("a" :> "A") @@ ("b" :> "B") @@ ("c" :> "C") @@ ("d" :> "D") @@ ("e" :> "E") @@ ("f" :> "F") @@
    ("g" :> "G") @@ ("h" :> "H") @@ ("i" :> "I") @@ ("j" :> "J") @@ ("k" :> "K") @@ ("l" :> "L") @@
    ("m" :> "M") @@ ("n" :> "N") @@ ("o" :> "O") @@ ("p" :> "P") @@ ("q" :> "Q") @@ ("r" :> "R") @@
    ("s" :> "S") @@ ("t" :> "T") @@ ("u" :> "U") @@ ("v" :> "V") @@ ("w" :> "W") @@ ("x" :> "X") @@
    ("y" :> "Y") @@ ("z" :> "Z")

\* Character c of a message matches character k of a lowercase keyword in
\* any letter case.
SameLetter(c, k) == c = k \/ (k \in DOMAIN UpperOf /\ UpperOf[k] = c)

\* The message contains the keyword in any letter case.
ContainsAnyCase(msg, kw) ==
    \E i \in 1..(Len(msg) - Len(kw) + 1) :
        \A j \in 1..Len(kw) : SameLetter(msg[i + j - 1], kw[j])

ContainsAny(msg, kws) == \E kw \in kws : ContainsAnyCase(msg, kw)

StartsWith(s, prefix) ==
    Len(s) >= Len(prefix) /\ SubSeq(s, 1, Len(prefix)) = prefix

VmTrapKeywords == {kw_wasm_trap, kw_trapped}
HostTrapKeywords == {kw_hosterror, kw_context}

\* The ordered sub-category rules of a VM trap.
VmTrapRules ==
    << [keys |-> {kw_unreachable}, out |-> out_unreachable],
       [keys |-> {kw_out_of_bounds, kw_memory_access}, out |-> out_out_of_bounds],
       [keys |-> {kw_integer_overflow, kw_arithmetic_overflow}, out |-> out_integer_overflow],
       [keys |-> {kw_stack_overflow, kw_call_stack_exhausted}, out |-> out_stack_overflow],
       [keys |-> {kw_divide_by_zero}, out |-> out_divide_by_zero] >>

\* The result of the ordered, first-match-wins rule list.
RuleListResult(msg) ==
    IF ContainsAny(msg, VmTrapKeywords)
    THEN LET hits == { i \in 1..Len(VmTrapRules) : ContainsAny(msg, VmTrapRules[i].keys) }
         IN  IF hits = {}
             THEN out_unknown_trap_prefix \o msg \o out_unknown_trap_suffix
             ELSE VmTrapRules[CHOOSE i \in hits : \A j \in hits : i <= j].out
    ELSE IF ContainsAny(msg, HostTrapKeywords)
    THEN out_host_trap_prefix \o msg
    ELSE out_execution_error_prefix \o msg

txt_VM_Trap == <<"V", "M", " ", "T", "r", "a", "p">>
txt_Host_Trap == <<"H", "o", "s", "t", " ", "T", "r", "a", "p">>

\* C4: decode_error returns the result of the ordered, case-insensitive,
\* first-match-wins rule list; a message with a VM-trap keyword and a
\* host-trap keyword is a VM trap; a trap message with "unreachable" and
\* "stack overflow" is Unreachable.
C4_RuleList ==
    (decoded # None) =>
        /\ decoded[1] = RuleListResult(err_msg)
        /\ (ContainsAny(err_msg, VmTrapKeywords) /\ ContainsAny(err_msg, HostTrapKeywords))
              => StartsWith(decoded[1], txt_VM_Trap)
        /\ (/\ ContainsAny(err_msg, VmTrapKeywords)
            /\ ContainsAnyCase(err_msg, kw_unreachable)
            /\ ContainsAnyCase(err_msg, kw_stack_overflow))
              => decoded[1] = out_unreachable

\* A message with a VM-trap keyword, a host-trap keyword and "stack
\* overflow" has been classified.
C4_Witness ==
    /\ decoded # None
    /\ ContainsAny(err_msg, VmTrapKeywords)
    /\ ContainsAny(err_msg, HostTrapKeywords)
    /\ ContainsAnyCase(err_msg, kw_stack_overflow)

OutOfBoundsCase ==
    /\ decoded # None
    /\ ContainsAny(err_msg, VmTrapKeywords)
    /\ ContainsAny(err_msg, {kw_out_of_bounds, kw_memory_access})

\* C5 as claimed: a message with a trap keyword and "out of bounds" or
\* "memory access", in any letter case, is classified Out of Bounds whatever
\* else it contains.
C5_OutOfBoundsAlways ==
    OutOfBoundsCase => decoded[1] = out_out_of_bounds

\* C5 as amended: such a message is classified Out of Bounds provided it
\* does not contain "unreachable" (in any letter case).
C5_OutOfBoundsUnlessUnreachable ==
    (OutOfBoundsCase /\ ~ContainsAnyCase(err_msg, kw_unreachable))
        => decoded[1] = out_out_of_bounds

\* An out-of-bounds trap message that also names a later rule's keyword has
\* been classified.
C5_Witness ==
    /\ OutOfBoundsCase
    /\ ~ContainsAnyCase(err_msg, kw_unreachable)
    /\ ContainsAnyCase(err_msg, kw_divide_by_zero)

HostErrorCase ==
    /\ decoded # None
    /\ ContainsAnyCase(err_msg, kw_hosterror)
    /\ ~ContainsAny(err_msg, VmTrapKeywords)

\* C6 as claimed: a message with "hosterror" and no trap keyword gives a
\* result that contains "Host Trap" and does not contain "VM Trap".
C6_HostTrapNeverVmTrap ==
    HostErrorCase =>
        /\ contains(decoded[1], txt_Host_Trap)
        /\ ~contains(decoded[1], txt_VM_Trap)

\* C6 as amended: such a message gives "Host Trap: " followed by the original
\* message: the result starts with "Host Trap", never with "VM Trap", and
\* contains "VM Trap" only where the original message does.
C6_HostTrapPrefix ==
    HostErrorCase =>
        /\ decoded[1] = out_host_trap_prefix \o err_msg
        /\ StartsWith(decoded[1], txt_Host_Trap)
        /\ ~StartsWith(decoded[1], txt_VM_Trap)
        /\ contains(decoded[1], txt_VM_Trap) => contains(err_msg, txt_VM_Trap)

\* A "HostError" message without "context" has been classified.
C6_Witness ==
    /\ HostErrorCase
    /\ ~ContainsAnyCase(err_msg, kw_context)
    /\ Len(err_msg) > Len(kw_hosterror)

====
